---- MODULE Spec2Model ----
(***************************************************************************)
(* Model of the /search gateway of local-services-events-api:              *)
(* src/app.py (classifier, adapters, dispatcher) and src/utils.py          *)
(* (formatters).                                                           *)
(*                                                                         *)
(* Python strings whose characters matter are sequences of one-character   *)
(* strings.  Python dicts are functions from keys to values; a missing key *)
(* is a key outside the DOMAIN.  A Python call that may raise returns a    *)
(* record [raised |-> BOOLEAN, val |-> result or exception text].          *)
(***************************************************************************)
EXTENDS Integers, Sequences, FiniteSets, TLC

VARIABLES
    pc,                            \* position of the request in search()
    GOOGLE_PLACES_LIMIT,           \* config['limits']['google_places_limit']
    INCLUDE_TOP_OFFERINGS_PRICES,  \* config['options'][...]
    classification,                \* result of classify_user_query
    event_category,                \* result of classify_event
    calls,                         \* external calls issued so far, in order
    upstream,                      \* records returned by the provider search
    events_data,                   \* fetch_events_from_predicthq: list / status
    response_data,                 \* fetch_locations_from_gplaces: list / sentinel
    idx,                           \* loop position over the provider records
    data,                          \* the record under construction
    exc,                           \* exception caught by search(), if any
    response,                      \* what /search answers
    arg,                           \* argument of a function called on its own
    ret                            \* what that call returned

request_vars == <<pc, GOOGLE_PLACES_LIMIT, INCLUDE_TOP_OFFERINGS_PRICES,
                  classification, event_category, calls, upstream, events_data,
                  response_data, idx, data, exc, response>>
unit_vars == <<arg, ret>>
vars == <<request_vars, unit_vars>>

(***************************************************************************)
(* Bounds                                                                  *)
(***************************************************************************)
\* provider records per search
MaxRecords == 2
\* largest configured google_places_limit
MaxLimit == 2
\* fragments concatenated into one LLM answer / phone number
MaxFrags == 3
\* opening-hours periods per place
MaxPeriods == 3

(***************************************************************************)
(* Python values                                                           *)
(***************************************************************************)
None == [kind |-> "NoneType"]
EmptyDict == <<>>
HasKey(d, k) == k \in DOMAIN d
Ok(v) == [raised |-> FALSE, val |-> v]
Raise(e) == [raised |-> TRUE, val |-> e]

\* d[k] = v on a dict
SetItem(d, k, v) == (k :> v) @@ d

\* d.get(k, default)
Get(d, k, default) == IF HasKey(d, k) THEN d[k] ELSE default

(***************************************************************************)
(* str methods                                                             *)
(***************************************************************************)
UpperCase == <<"A","B","C","D","E","F","G","H","I","J","K","L","M",
               "N","O","P","Q","R","S","T","U","V","W","X","Y","Z">>
LowerCase == <<"a","b","c","d","e","f","g","h","i","j","k","l","m",
               "n","o","p","q","r","s","t","u","v","w","x","y","z">>

\* str.isspace() characters that occur in the inputs
Whitespace == {" ", "\t", "\n", "\r"}

AsciiDigit == {"0","1","2","3","4","5","6","7","8","9"}

\* characters outside ASCII for which str.isdigit() is True:
\* ARABIC-INDIC DIGIT THREE and SUPERSCRIPT TWO
UnicodeDigit == {"U+0663", "U+00B2"}

\* str.lower(), one character
LowerChar(c) ==
    IF \E i \in 1..26 : UpperCase[i] = c
    THEN LowerCase[CHOOSE i \in 1..26 : UpperCase[i] = c]
    ELSE c

\* str.lower()
Lower(s) == [i \in 1..Len(s) |-> LowerChar(s[i])]

\* str.strip()
Strip(s) ==
    LET keep == {i \in 1..Len(s) : s[i] \notin Whitespace}
    IN  IF keep = {} THEN <<>>
        ELSE LET lo == CHOOSE i \in keep : \A j \in keep : i <= j
                 hi == CHOOSE i \in keep : \A j \in keep : j <= i
             IN  SubSeq(s, lo, hi)

\* s.startswith(sub) at position i
MatchAt(s, sub, i) ==
    /\ i + Len(sub) - 1 <= Len(s)
    /\ \A k \in 1..Len(sub) : s[i + k - 1] = sub[k]

\* sub in s
Contains(s, sub) == \E i \in 1..(Len(s) + 1) : MatchAt(s, sub, i)

\* str.replace(old, new) for a non-empty old: left to right, not overlapping
RECURSIVE Replace(_, _, _)
Replace(s, old, new) ==
    IF s = <<>> THEN <<>>
    ELSE IF MatchAt(s, old, 1)
         THEN new \o Replace(SubSeq(s, Len(old) + 1, Len(s)), old, new)
         ELSE <<s[1]>> \o Replace(Tail(s), old, new)

\* str.isdigit(): non-empty and every character a (Unicode) digit
IsDigit(s) ==
    /\ s # <<>>
    /\ \A i \in 1..Len(s) : s[i] \in AsciiDigit \cup UnicodeDigit

\* str.split(sep) for a one-character sep
RECURSIVE Split(_, _)
Split(s, sep) ==
    IF \A i \in 1..Len(s) : s[i] # sep THEN <<s>>
    ELSE LET p == CHOOSE i \in 1..Len(s) :
                     /\ s[i] = sep
                     /\ \A j \in 1..(i - 1) : s[j] # sep
         IN  <<SubSeq(s, 1, p - 1)>> \o Split(SubSeq(s, p + 1, Len(s)), sep)

(***************************************************************************)
(* src/app.py: classify_user_query, applied to the text of the LLM answer  *)
(***************************************************************************)
W_event == <<"e","v","e","n","t">>
W_location == <<"l","o","c","a","t","i","o","n">>

\* the same without .lower()
classify_user_query_NoLower(response_text) ==
    LET classification_ == Strip(response_text)
    IN  IF Contains(classification_, W_event) THEN "event"
        ELSE IF Contains(classification_, W_location) THEN "location"
        ELSE "location"

classify_user_query(response_text) ==
    LET classification_ == Lower(Strip(response_text))
    IN  IF Contains(classification_, W_event) THEN "event"
        ELSE IF Contains(classification_, W_location) THEN "location"
        ELSE "location"

(***************************************************************************)
(* src/utils.py: format_datetime                                           *)
(*                                                                         *)
(* A string that matches '%Y-%m-%dT%H:%M:%SZ' is the record of its fields; *)
(* every other string is BadTimestamp.                                     *)
(***************************************************************************)
BadTimestamp == [kind |-> "no match"]
Timestamp(Y, M, D, h, m, s) ==
    [kind |-> "Z", Y |-> Y, M |-> M, D |-> D, h |-> h, m |-> m, s |-> s]

DigitChar == <<"0","1","2","3","4","5","6","7","8","9">>
Digits2(n) == <<DigitChar[((n \div 10) % 10) + 1], DigitChar[(n % 10) + 1]>>
Digits4(n) == Digits2(n \div 100) \o Digits2(n % 100)

\* %b
MonthAbbr == << <<"J","a","n">>, <<"F","e","b">>, <<"M","a","r">>, <<"A","p","r">>, <<"M","a","y">>, <<"J","u","n">>,
               <<"J","u","l">>, <<"A","u","g">>, <<"S","e","p">>, <<"O","c","t">>, <<"N","o","v">>, <<"D","e","c">> >>

IsLeap(Y) == ((Y % 4) = 0 /\ (Y % 100) # 0) \/ (Y % 400) = 0
DaysInMonth(Y, M) ==
    IF M = 2 THEN (IF IsLeap(Y) THEN 29 ELSE 28)
    ELSE IF M \in {4, 6, 9, 11} THEN 30 ELSE 31

\* datetime.strptime(s, '%Y-%m-%dT%H:%M:%SZ')
strptime(s) == IF s.kind = "Z" THEN Ok(s) ELSE Raise("ValueError")

\* dt + timedelta(hours=n), 0 <= n < 24
AddHours(dt, n) ==
    LET tot == dt.h + n
        h2 == tot % 24
    IN  IF tot < 24 THEN [dt EXCEPT !.h = h2]
        ELSE IF dt.D < DaysInMonth(dt.Y, dt.M)
             THEN [dt EXCEPT !.h = h2, !.D = dt.D + 1]
        ELSE IF dt.M < 12
             THEN [dt EXCEPT !.h = h2, !.D = 1, !.M = dt.M + 1]
        ELSE [dt EXCEPT !.h = h2, !.D = 1, !.M = 1, !.Y = dt.Y + 1]

\* dt.strftime('%d %b %Y @ %H%M HRS')
strftime(dt) ==
    Digits2(dt.D) \o <<" ">> \o MonthAbbr[dt.M] \o <<" ">> \o Digits4(dt.Y)
    \o <<" ","@"," ">> \o Digits2(dt.h) \o Digits2(dt.m)
    \o <<" ","H","R","S">>

format_datetime(original_datetime_str) ==
    LET dt_obj == strptime(original_datetime_str)
    IN  IF dt_obj.raised THEN dt_obj
        ELSE Ok(strftime(AddHours(dt_obj.val, 8)))

(***************************************************************************)
(* src/utils.py: format_address, applied to the geocoding response         *)
(***************************************************************************)
StatusStr == (200 :> "200") @@ (204 :> "204") @@ (401 :> "401")
             @@ (500 :> "500") @@ (503 :> "503")

format_address(geo_response) ==
    IF geo_response.status_code = 200
    THEN IF geo_response.results # <<>>
         THEN <<geo_response.results[1]>>
         ELSE <<"No address found for the provided coordinates.">>
    ELSE <<"Error: ", StatusStr[geo_response.status_code], " - ",
           geo_response.text>>

(***************************************************************************)
(* src/utils.py: event_search_URL                                          *)
(***************************************************************************)
GoogleSearchPrefix == <<"h","t","t","p","s",":","/","/","w","w","w",".","g","o","o","g","l","e",".","c","o","m","/">>
                      \o <<"s","e","a","r","c","h","?","q","=">>

event_search_URL(event_title) ==
    LET modified_event_title == Replace(event_title, <<" ">>, <<"+">>)
    IN  GoogleSearchPrefix \o modified_event_title

(***************************************************************************)
(* src/utils.py: format_opening_hours                                      *)
(***************************************************************************)
days_map == <<"Sun", "Mon", "Tue", "Wed", "Thu", "Fri", "Sat">>

\* f"{open_time}-{close_time}"
HoursText(open_time, close_time) == <<open_time, "-", close_time>>

\* the same keeping the first period of a day instead of the last
PeriodStep_FirstWins(period, day, week_hours) ==
    IF ~HasKey(period, "open") THEN Raise("KeyError: 'open'")
    ELSE IF ~HasKey(period["open"], "day") THEN Raise("KeyError: 'day'")
    ELSE IF period["open"]["day"] # day THEN Ok(week_hours)
    ELSE IF ~HasKey(period["open"], "time") THEN Raise("KeyError: 'time'")
    ELSE IF ~HasKey(period, "close") THEN Raise("KeyError: 'close'")
    ELSE IF ~HasKey(period["close"], "time") THEN Raise("KeyError: 'time'")
    ELSE IF HasKey(week_hours, days_map[day + 1]) THEN Ok(week_hours)
    ELSE Ok(SetItem(week_hours, days_map[day + 1],
                    HoursText(period["open"]["time"], period["close"]["time"])))

\* the same skipping a period without 'close' instead of failing on it
PeriodStep_SkipNoClose(period, day, week_hours) ==
    IF ~HasKey(period, "open") THEN Raise("KeyError: 'open'")
    ELSE IF ~HasKey(period["open"], "day") THEN Raise("KeyError: 'day'")
    ELSE IF period["open"]["day"] # day THEN Ok(week_hours)
    ELSE IF ~HasKey(period["open"], "time") THEN Raise("KeyError: 'time'")
    ELSE IF ~HasKey(period, "close") THEN Ok(week_hours)
    ELSE IF ~HasKey(period["close"], "time") THEN Raise("KeyError: 'time'")
    ELSE Ok(SetItem(week_hours, days_map[day + 1],
                    HoursText(period["open"]["time"], period["close"]["time"])))

\* one period of the inner loop: week_hours afterwards, or the KeyError
PeriodStep(period, day, week_hours) ==
    IF ~HasKey(period, "open") THEN Raise("KeyError: 'open'")
    ELSE IF ~HasKey(period["open"], "day") THEN Raise("KeyError: 'day'")
    ELSE IF period["open"]["day"] # day THEN Ok(week_hours)
    ELSE IF ~HasKey(period["open"], "time") THEN Raise("KeyError: 'time'")
    ELSE IF ~HasKey(period, "close") THEN Raise("KeyError: 'close'")
    ELSE IF ~HasKey(period["close"], "time") THEN Raise("KeyError: 'time'")
    ELSE Ok(SetItem(week_hours, days_map[day + 1],
                    HoursText(period["open"]["time"], period["close"]["time"])))

\* for period in periods, from position j on
RECURSIVE PeriodsLoop(_, _, _, _)
PeriodsLoop(periods, day, j, week_hours) ==
    IF j > Len(periods) THEN Ok(week_hours)
    ELSE LET r == PeriodStep(periods[j], day, week_hours)
         IN  IF r.raised THEN r
             ELSE PeriodsLoop(periods, day, j + 1, r.val)

\* for day in range(7), from day on
RECURSIVE DaysLoop(_, _, _)
DaysLoop(periods, day, week_hours) ==
    IF day > 6 THEN Ok(week_hours)
    ELSE LET r == PeriodsLoop(periods, day, 1, week_hours)
         IN  IF r.raised THEN r
             ELSE DaysLoop(periods, day + 1, r.val)

\* the body of the try block
OpeningHoursTry(opening_hours) ==
    IF opening_hours = None THEN Raise("AttributeError")
    ELSE DaysLoop(Get(opening_hours, "periods", <<>>), 0, EmptyDict)

format_opening_hours(opening_hours) ==
    LET r == OpeningHoursTry(opening_hours)
    IN  IF r.raised THEN EmptyDict ELSE r.val

(***************************************************************************)
(* src/utils.py: format_contact_number                                     *)
(***************************************************************************)
PyStr(s) == [kind |-> "str", val |-> s]
PyInt(n) == [kind |-> "int", val |-> n]
NoneText == <<"N","o","n","e">>

format_contact_number(number) ==
    IF number = None THEN NoneText
    ELSE IF number.kind # "str" THEN NoneText
    ELSE LET cleaned_number == Replace(number.val, <<" ">>, <<>>)
         IN  IF Len(cleaned_number) # 8 \/ ~IsDigit(cleaned_number)
             THEN NoneText
             ELSE <<"+","6","5","-">> \o SubSeq(cleaned_number, 1, 4)
                  \o <<"-">> \o SubSeq(cleaned_number, 5, 8)

(***************************************************************************)
(* src/app.py: generate_top_offerings_prices, applied to the LLM answer    *)
(***************************************************************************)
\* offering.split(':', 1) when ':' in offering
SplitOnce(s, sep) ==
    LET p == CHOOSE i \in 1..Len(s) :
                 /\ s[i] = sep
                 /\ \A j \in 1..(i - 1) : s[j] # sep
    IN  <<SubSeq(s, 1, p - 1), SubSeq(s, p + 1, Len(s))>>

RECURSIVE OfferingsLoop(_, _, _)
OfferingsLoop(offerings_list, j, offerings_dict) ==
    IF j > Len(offerings_list) THEN offerings_dict
    ELSE LET offering == offerings_list[j]
         IN  IF Contains(offering, <<":">>)
             THEN LET kv == SplitOnce(offering, ":")
                  IN  OfferingsLoop(offerings_list, j + 1,
                          SetItem(offerings_dict, Strip(kv[1]), Strip(kv[2])))
             ELSE OfferingsLoop(offerings_list, j + 1, offerings_dict)

generate_top_offerings_prices(response_text) ==
    OfferingsLoop(Split(response_text, ","), 1, EmptyDict)

(***************************************************************************)
(* Calling one function on its own: the argument is drawn by the initial   *)
(* state, the call stores what the function returns.                       *)
(***************************************************************************)
Pending == [kind |-> "pending"]
Returned(v) == [kind |-> "returned", val |-> v]

\* flatten a sequence of strings into one string
RECURSIVE Concat(_)
Concat(ss) == IF ss = <<>> THEN <<>> ELSE Head(ss) \o Concat(Tail(ss))

\* every concatenation of MaxFrags fragments
Texts(frags) ==
    { Concat([i \in 1..MaxFrags |-> frags[f[i]]]) :
          f \in [1..MaxFrags -> 1..Len(frags)] }

\* no request is in progress
RequestIdle ==
    /\ pc = "idle"
    /\ GOOGLE_PLACES_LIMIT = 0
    /\ INCLUDE_TOP_OFFERINGS_PRICES = FALSE
    /\ classification = "unset"
    /\ event_category = "unset"
    /\ calls = <<>>
    /\ upstream = <<>>
    /\ events_data = None
    /\ response_data = None
    /\ idx = 0
    /\ data = EmptyDict
    /\ exc = None
    /\ response = None

\* ---- classify_user_query ---------------------------------------------
IntentFrags ==
    << <<>>, <<" ">>, <<"\n">>, <<"'">>, <<"x">>,
       W_event, <<"E","v","e","n","t">>, <<"E","V","E","N","T">>,
       <<"e","v","e","n">>, <<"t">>,
       W_location, <<"L","o","c","a","t","i","o","n">> >>
IntentTexts == Texts(IntentFrags)

InitClassify == RequestIdle /\ arg \in IntentTexts /\ ret = Pending
CallClassify ==
    /\ ret = Pending
    /\ ret' = Returned(classify_user_query(arg))
    /\ UNCHANGED <<request_vars, arg>>
SpecClassify == InitClassify /\ [][CallClassify]_vars

\* ---- format_opening_hours --------------------------------------------
Period(od, ot, cd, ct) ==
    [open |-> [day |-> od, time |-> ot], close |-> [day |-> cd, time |-> ct]]

PeriodPool ==
    << Period(1, "0900", 1, "1800"),
       Period(1, "1900", 1, "2200"),
       Period(0, "1000", 0, "1700"),
       Period(6, "2200", 0, "0200"),
       [close |-> [day |-> 1, time |-> "1800"]],
       [open |-> [day |-> 1, time |-> "0900"]],
       [open |-> [time |-> "0900"], close |-> [day |-> 1, time |-> "1800"]],
       [open |-> [day |-> 3], close |-> [day |-> 3, time |-> "1800"]],
       [open |-> [day |-> 4, time |-> "0900"], close |-> [day |-> 4]],
       [open |-> [day |-> 2, time |-> "0800"], close |-> [time |-> "1200"]],
       [open |-> [day |-> 7, time |-> "0900"]] >>

PeriodLists ==
    UNION { [1..n -> {PeriodPool[k] : k \in 1..Len(PeriodPool)}] :
                n \in 0..MaxPeriods }

OpeningHoursInputs ==
    {None, EmptyDict} \cup { [periods |-> ps] : ps \in PeriodLists }

InitHours == RequestIdle /\ arg \in OpeningHoursInputs /\ ret = Pending
CallHours ==
    /\ ret = Pending
    /\ ret' = Returned(format_opening_hours(arg))
    /\ UNCHANGED <<request_vars, arg>>
SpecHours == InitHours /\ [][CallHours]_vars

\* ---- format_contact_number -------------------------------------------
PhoneFrags ==
    << <<>>, <<" ">>, <<"\t">>, <<"a">>, <<"6","1">>,
       <<"6","1","2","3">>, <<"4","5","6","7">>,
       <<"6","1","2","U+0663">>, <<"U+00B2">> >>

PhoneInputs ==
    {None, PyInt(61234567)} \cup { PyStr(t) : t \in Texts(PhoneFrags) }

InitPhone == RequestIdle /\ arg \in PhoneInputs /\ ret = Pending
CallPhone ==
    /\ ret = Pending
    /\ ret' = Returned(format_contact_number(arg))
    /\ UNCHANGED <<request_vars, arg>>
SpecPhone == InitPhone /\ [][CallPhone]_vars

(***************************************************************************)
(* What the collaborators may answer                                       *)
(***************************************************************************)
PyList(l) == [kind |-> "list", val |-> l]
Exception(msg) == [kind |-> "Exception", msg |-> msg]

\* JSONResponse(content=..., status_code=...)
JSONResponse(content, status_code) ==
    [kind |-> "JSONResponse", status_code |-> status_code, content |-> content]

BoilerplatePrefix == <<"S","o","u","r","c","e","d"," ","f","r","o","m"," ">>
                     \o <<"p","r","e","d","i","c","t","h","q",".","c","o","m"," ","-"," ">>
NoDescription == <<"N","o"," ","d","e","s","c","r","i","p","t","i","o","n">>

\* raw records of the events API
RawEventPool ==
    << [title |-> <<"J","a","z","z"," ","N","i","g","h","t">>,
        start |-> Timestamp(2024, 3, 1, 10, 0, 0),
        end |-> Timestamp(2024, 12, 31, 20, 30, 0),
        location |-> <<103, 1>>,
        description |-> BoilerplatePrefix \o <<"L","i","v","e"," ","j","a","z","z">>],
       [title |-> <<"E","x","p","o">>,
        start |-> Timestamp(2024, 2, 28, 17, 5, 0),
        end |-> Timestamp(2024, 2, 29, 3, 0, 0),
        location |-> <<104, 2>>],
       [title |-> <<"R","u","n"," ","5","k">>,
        start |-> Timestamp(2025, 4, 30, 23, 59, 59),
        end |-> BadTimestamp,
        location |-> <<105, 3>>,
        description |-> <<"F","u","n"," ","r","u","n">>] >>

EventLists ==
    UNION { [1..n -> {RawEventPool[k] : k \in 1..Len(RawEventPool)}] :
                n \in 0..MaxRecords }

\* HTTP statuses of the events API
EventStatuses == {200, 204, 401, 503}

\* answers of the reverse-geocoding API
GeoResponses ==
    { [status_code |-> 200, results |-> <<"1 Esplanade Dr">>, text |-> "{...}"],
      [status_code |-> 200, results |-> <<>>, text |-> "{...}"],
      [status_code |-> 500, results |-> <<>>, text |-> "backend error"] }

\* answers of the LLM to the category, description and offerings prompts
CategoryTexts == {"concerts", "sports\n"}
DescriptionTexts == {"generated text"}
OfferingTexts ==
    { <<"L","a","t","t","e",":"," ","$","5",","," ","C","a","k","e"," ",","," ","T","e","a",":","N","A">>,
      <<"n","o","n","e">> }

\* place identifiers of the text search and the details behind each
PlaceIds == {"p1", "p2", "p3"}
PlaceDetailsOf ==
    ("p1" :> [name |-> "Cafe One",
              formatted_address |-> "1 Main St",
              opening_hours |-> [periods |-> <<PeriodPool[1], PeriodPool[3],
                                               PeriodPool[2]>>],
              formatted_phone_number |-> PyStr(<<"6","1","2","3"," ","4","5","6","7">>),
              types |-> <<"cafe", "food">>,
              url |-> "https://maps.google.com/?cid=1"])
    @@ ("p2" :> [name |-> "Park Two",
                 formatted_address |-> "2 Park Rd",
                 types |-> <<"park">>,
                 url |-> "https://maps.google.com/?cid=2"])
    @@ ("p3" :> [name |-> "Shop Three",
                 formatted_address |-> "3 Mall Ave",
                 opening_hours |-> [periods |-> <<PeriodPool[1], PeriodPool[6]>>],
                 formatted_phone_number |-> PyStr(<<"+","6","5"," ","6","1","2","3"," ","4","5","6","7">>),
                 url |-> "https://maps.google.com/?cid=3"])

PlaceLists == UNION { [1..n -> PlaceIds] : n \in 0..MaxRecords }

Min(a, b) == IF a <= b THEN a ELSE b

\* l[:n] for n >= 0
Prefix(l, n) == SubSeq(l, 1, Min(n, Len(l)))

\* bool(v) of a list or an int
Truthy(v) == IF v.kind = "list" THEN v.val # <<>> ELSE v.val # 0

\* ', '.join(types)
RECURSIVE JoinComma(_)
JoinComma(types) ==
    IF types = <<>> THEN <<>>
    ELSE IF Len(types) = 1 THEN <<types[1]>>
    ELSE <<types[1], ", ">> \o JoinComma(Tail(types))

(***************************************************************************)
(* One request to GET /search                                              *)
(***************************************************************************)
Init ==
    /\ pc = "classify_user_query"
    /\ GOOGLE_PLACES_LIMIT \in 0..MaxLimit
    /\ INCLUDE_TOP_OFFERINGS_PRICES \in BOOLEAN
    /\ classification = "unset"
    /\ event_category = "unset"
    /\ calls = <<>>
    /\ upstream = <<>>
    /\ events_data = None
    /\ response_data = None
    /\ idx = 0
    /\ data = EmptyDict
    /\ exc = None
    /\ response = None
    /\ arg = None
    /\ ret = Pending

\* an exception leaves the try block of search()
Throw(msg) ==
    /\ exc' = Exception(msg)
    /\ pc' = "except"

Call(name, args) == calls' = Append(calls, [call |-> name, args |-> args])

\* search(): classification = classify_user_query(q), and the branch on it
ClassifyUserQuery ==
    /\ pc = "classify_user_query"
    /\ Call("llm:intent", <<>>)
    /\ \/ /\ Throw("generate_content failed: intent")
          /\ UNCHANGED classification
       \/ \E response_text \in IntentTexts :
            /\ classification' = classify_user_query(response_text)
            /\ pc' = IF classification' = "event"
                     THEN "classify_event" ELSE "gmaps.places"
            /\ UNCHANGED exc
    /\ UNCHANGED <<GOOGLE_PLACES_LIMIT, INCLUDE_TOP_OFFERINGS_PRICES,
                   event_category, upstream, events_data, response_data,
                   idx, data, response, unit_vars>>

\* fetch_events_from_predicthq: event_category = classify_event(query)
ClassifyEvent ==
    /\ pc = "classify_event"
    /\ Call("llm:category", <<>>)
    /\ \/ /\ Throw("generate_content failed: category")
          /\ UNCHANGED event_category
       \/ \E response_text \in CategoryTexts :
            /\ event_category' = response_text
            /\ pc' = "requests.get"
            /\ UNCHANGED exc
    /\ UNCHANGED <<GOOGLE_PLACES_LIMIT, INCLUDE_TOP_OFFERINGS_PRICES,
                   classification, upstream, events_data, response_data,
                   idx, data, response, unit_vars>>

\* fetch_events_from_predicthq: the GET and the branch on its status.  The
\* scope, the dates, PREDICTHQ_EVENT_LIMIT and the sort key are parameters of
\* the request only; the code never truncates or sorts what comes back.
EventsGet ==
    /\ pc = "requests.get"
    /\ Call("http:events", <<event_category>>)
    /\ \/ /\ Throw("requests.get failed: events")
          /\ UNCHANGED <<upstream, events_data, idx>>
       \/ \E status_code \in EventStatuses \ {200} :
            /\ events_data' = PyInt(status_code)
            /\ pc' = "search.event"
            /\ UNCHANGED <<upstream, idx, exc>>
       \/ \E results \in EventLists :
            /\ upstream' = results
            /\ events_data' = PyList(<<>>)
            /\ idx' = 1
            /\ pc' = IF results = <<>> THEN "search.event" ELSE "format_address"
            /\ UNCHANGED exc
    /\ UNCHANGED <<GOOGLE_PLACES_LIMIT, INCLUDE_TOP_OFFERINGS_PRICES,
                   classification, event_category, response_data, data,
                   response, unit_vars>>

\* one event: Title, Start, End, then the geocoding call of format_address
EventAddress ==
    /\ pc = "format_address"
    /\ LET event == upstream[idx]
           start == format_datetime(event["start"])
           end == format_datetime(event["end"])
       IN  IF start.raised
           THEN /\ Throw(start.val)
                /\ UNCHANGED <<calls, data>>
           ELSE IF end.raised
           THEN /\ Throw(end.val)
                /\ UNCHANGED <<calls, data>>
           ELSE /\ Call("http:geocode",
                        <<event["location"][2], event["location"][1]>>)
                /\ \/ /\ Throw("requests.get failed: geocode")
                      /\ UNCHANGED data
                   \/ \E geo_response \in GeoResponses :
                        /\ data' = ("Title" :> event["title"])
                                   @@ ("Start Date & Time" :> start.val)
                                   @@ ("End Date & Time" :> end.val)
                                   @@ ("Location" :> format_address(geo_response))
                        /\ pc' = "generate_event_description"
                        /\ UNCHANGED exc
    /\ UNCHANGED <<GOOGLE_PLACES_LIMIT, INCLUDE_TOP_OFFERINGS_PRICES,
                   classification, event_category, upstream, events_data,
                   response_data, idx, response, unit_vars>>

\* the same inserting the record at the front of events_data
EventDescription_Prepend ==
    /\ pc = "generate_event_description"
    /\ LET event == upstream[idx]
           event_description ==
               Replace(Get(event, "description", NoDescription),
                       BoilerplatePrefix, <<>>)
       IN  /\ Call("llm:event_description", <<event["title"], event_description>>)
           /\ \/ /\ Throw("generate_content failed: event description")
                 /\ UNCHANGED <<events_data, idx, data>>
              \/ \E response_text \in DescriptionTexts :
                   /\ events_data' = PyList(<<
                          data @@ ("Description" :> response_text)
                               @@ ("Citation" :> event_search_URL(event["title"]))
                          >> \o events_data.val)
                   /\ idx' = idx + 1
                   /\ data' = EmptyDict
                   /\ pc' = IF idx + 1 > Len(upstream)
                            THEN "search.event" ELSE "format_address"
                   /\ UNCHANGED exc
    /\ UNCHANGED <<GOOGLE_PLACES_LIMIT, INCLUDE_TOP_OFFERINGS_PRICES,
                   classification, event_category, upstream, response_data,
                   response, unit_vars>>

\* one event: Description, Citation, events_data.append(data)
EventDescription ==
    /\ pc = "generate_event_description"
    /\ LET event == upstream[idx]
           event_description ==
               Replace(Get(event, "description", NoDescription),
                       BoilerplatePrefix, <<>>)
       IN  /\ Call("llm:event_description", <<event["title"], event_description>>)
           /\ \/ /\ Throw("generate_content failed: event description")
                 /\ UNCHANGED <<events_data, idx, data>>
              \/ \E response_text \in DescriptionTexts :
                   /\ events_data' = PyList(Append(events_data.val,
                          data @@ ("Description" :> response_text)
                               @@ ("Citation" :> event_search_URL(event["title"]))))
                   /\ idx' = idx + 1
                   /\ data' = EmptyDict
                   /\ pc' = IF idx + 1 > Len(upstream)
                            THEN "search.event" ELSE "format_address"
                   /\ UNCHANGED exc
    /\ UNCHANGED <<GOOGLE_PLACES_LIMIT, INCLUDE_TOP_OFFERINGS_PRICES,
                   classification, event_category, upstream, response_data,
                   response, unit_vars>>

\* search(): the event branch after fetch_events_from_predicthq returned
SearchEvent ==
    /\ pc = "search.event"
    /\ response' = IF ~Truthy(events_data)
                   THEN JSONResponse([message |-> "No upcoming events found."], 404)
                   ELSE JSONResponse(events_data, 200)
    /\ pc' = "done"
    /\ UNCHANGED <<GOOGLE_PLACES_LIMIT, INCLUDE_TOP_OFFERINGS_PRICES,
                   classification, event_category, calls, upstream,
                   events_data, response_data, idx, data, exc, unit_vars>>

\* fetch_locations_from_gplaces: the text search and the branch on places
PlacesSearch ==
    /\ pc = "gmaps.places"
    /\ Call("gmaps:places", <<>>)
    /\ \/ /\ Throw("gmaps.places failed")
          /\ UNCHANGED <<upstream, response_data, idx>>
       \/ \E places \in PlaceLists :
            /\ upstream' = places
            /\ IF places = <<>>
               THEN /\ response_data' =
                          JSONResponse([message |-> "No results found."], 404)
                    /\ pc' = "search.location"
                    /\ UNCHANGED idx
               ELSE /\ response_data' = PyList(<<>>)
                    /\ idx' = 1
                    /\ pc' = IF Prefix(places, GOOGLE_PLACES_LIMIT) = <<>>
                             THEN "search.location" ELSE "gmaps.place"
            /\ UNCHANGED exc
    /\ UNCHANGED <<GOOGLE_PLACES_LIMIT, INCLUDE_TOP_OFFERINGS_PRICES,
                   classification, event_category, events_data, data,
                   response, unit_vars>>

\* one place: the details lookup and the fields taken from it
PlaceDetails ==
    /\ pc = "gmaps.place"
    /\ LET place_id == Prefix(upstream, GOOGLE_PLACES_LIMIT)[idx]
       IN  /\ Call("gmaps:place", <<place_id>>)
           /\ \/ /\ Throw("gmaps.place failed")
                 /\ UNCHANGED data
              \/ LET place_details == PlaceDetailsOf[place_id]
                 IN  /\ data' =
                           ("Name" :> Get(place_details, "name", None))
                           @@ ("Address" :> Get(place_details, "formatted_address", None))
                           @@ ("Opening Hours" :> format_opening_hours(
                                   Get(place_details, "opening_hours", EmptyDict)))
                           @@ ("Contact Number" :> format_contact_number(
                                   Get(place_details, "formatted_phone_number", None)))
                           @@ ("Citation" :> <<Get(place_details, "url", None)>>)
                     /\ pc' = "generate_place_description"
                     /\ UNCHANGED exc
    /\ UNCHANGED <<GOOGLE_PLACES_LIMIT, INCLUDE_TOP_OFFERINGS_PRICES,
                   classification, event_category, upstream, events_data,
                   response_data, idx, response, unit_vars>>

\* response_data.append(data) and the next round of the loop over places
AppendPlace(place) ==
    /\ response_data' = PyList(Append(response_data.val, place))
    /\ idx' = idx + 1
    /\ data' = EmptyDict
    /\ pc' = IF idx + 1 > Len(Prefix(upstream, GOOGLE_PLACES_LIMIT))
             THEN "search.location" ELSE "gmaps.place"

\* the same asking for the offerings whatever the option says
PlaceDescription_AlwaysOfferings ==
    /\ pc = "generate_place_description"
    /\ LET place_details == PlaceDetailsOf[Prefix(upstream, GOOGLE_PLACES_LIMIT)[idx]]
       IN  Call("llm:place_description",
                <<data["Name"], JoinComma(Get(place_details, "types", <<>>))>>)
    /\ \/ /\ Throw("generate_content failed: place description")
          /\ UNCHANGED <<response_data, idx, data>>
       \/ \E response_text \in DescriptionTexts :
            /\ data' = data @@ ("Description" :> response_text)
            /\ pc' = "generate_top_offerings_prices"
            /\ UNCHANGED <<response_data, idx>>
            /\ UNCHANGED exc
    /\ UNCHANGED <<GOOGLE_PLACES_LIMIT, INCLUDE_TOP_OFFERINGS_PRICES,
                   classification, event_category, upstream, events_data,
                   response, unit_vars>>

\* one place: Description, then the branch on INCLUDE_TOP_OFFERINGS_PRICES
PlaceDescription ==
    /\ pc = "generate_place_description"
    /\ LET place_details == PlaceDetailsOf[Prefix(upstream, GOOGLE_PLACES_LIMIT)[idx]]
       IN  Call("llm:place_description",
                <<data["Name"], JoinComma(Get(place_details, "types", <<>>))>>)
    /\ \/ /\ Throw("generate_content failed: place description")
          /\ UNCHANGED <<response_data, idx, data>>
       \/ \E response_text \in DescriptionTexts :
            /\ IF INCLUDE_TOP_OFFERINGS_PRICES
               THEN /\ data' = data @@ ("Description" :> response_text)
                    /\ pc' = "generate_top_offerings_prices"
                    /\ UNCHANGED <<response_data, idx>>
               ELSE AppendPlace(data @@ ("Description" :> response_text))
            /\ UNCHANGED exc
    /\ UNCHANGED <<GOOGLE_PLACES_LIMIT, INCLUDE_TOP_OFFERINGS_PRICES,
                   classification, event_category, upstream, events_data,
                   response, unit_vars>>

\* one place: Top Offerings & Prices
PlaceOfferings ==
    /\ pc = "generate_top_offerings_prices"
    /\ Call("llm:top_offerings", <<data["Name"]>>)
    /\ \/ /\ Throw("generate_content failed: top offerings")
          /\ UNCHANGED <<response_data, idx, data>>
       \/ \E response_text \in OfferingTexts :
            /\ AppendPlace(data @@ ("Top Offerings & Prices" :>
                               generate_top_offerings_prices(response_text)))
            /\ UNCHANGED exc
    /\ UNCHANGED <<GOOGLE_PLACES_LIMIT, INCLUDE_TOP_OFFERINGS_PRICES,
                   classification, event_category, upstream, events_data,
                   response, unit_vars>>

\* search(): the location branch after fetch_locations_from_gplaces
\* returned; JSONResponse(content=...) serialises its content with
\* json.dumps, which raises TypeError on a JSONResponse object
SearchLocation ==
    /\ pc = "search.location"
    /\ IF response_data.kind = "list"
       THEN /\ response' = JSONResponse(response_data, 200)
            /\ pc' = "done"
            /\ UNCHANGED exc
       ELSE /\ Throw("Object of type JSONResponse is not JSON serializable")
            /\ UNCHANGED response
    /\ UNCHANGED <<GOOGLE_PLACES_LIMIT, INCLUDE_TOP_OFFERINGS_PRICES,
                   classification, event_category, calls, upstream,
                   events_data, response_data, idx, data, unit_vars>>

\* the same answering with the records normalized so far
SearchExcept_Partial ==
    /\ pc = "except"
    /\ response' = JSONResponse([detail |-> exc.msg, results |-> events_data], 500)
    /\ pc' = "done"
    /\ UNCHANGED <<GOOGLE_PLACES_LIMIT, INCLUDE_TOP_OFFERINGS_PRICES,
                   classification, event_category, calls, upstream,
                   events_data, response_data, idx, data, exc, unit_vars>>

\* search(): except Exception as e: raise HTTPException(500, detail=str(e))
SearchExcept ==
    /\ pc = "except"
    /\ response' = JSONResponse([detail |-> exc.msg], 500)
    /\ pc' = "done"
    /\ UNCHANGED <<GOOGLE_PLACES_LIMIT, INCLUDE_TOP_OFFERINGS_PRICES,
                   classification, event_category, calls, upstream,
                   events_data, response_data, idx, data, exc, unit_vars>>

Next ==
    \/ ClassifyUserQuery
    \/ ClassifyEvent
    \/ EventsGet
    \/ EventAddress
    \/ EventDescription
    \/ SearchEvent
    \/ PlacesSearch
    \/ PlaceDetails
    \/ PlaceDescription
    \/ PlaceOfferings
    \/ SearchLocation
    \/ SearchExcept

Spec == Init /\ [][Next]_vars

(***************************************************************************)
(* Properties of the formatters and of the classifier                      *)
(***************************************************************************)
\* w occurs in text, letter case ignored
HasWord(text, w) ==
    \E i \in 1..Len(text) :
        /\ i + Len(w) - 1 <= Len(text)
        /\ \A k \in 1..Len(w) : LowerChar(text[i + k - 1]) = w[k]

\* C5: classify_user_query returns 'event' or 'location' for every answer
\* text: 'event' exactly when the answer contains "event" in any letter
\* case, 'location' otherwise (with "location" in it or with neither word,
\* the empty answer included).
C5_ClassifyTotal ==
    ret.kind = "returned" =>
        /\ ret.val \in {"event", "location"}
        /\ ret.val = "event" <=> HasWord(arg, W_event)
        /\ (~HasWord(arg, W_event) /\ HasWord(arg, W_location))
               => ret.val = "location"
        /\ (~HasWord(arg, W_event) /\ ~HasWord(arg, W_location))
               => ret.val = "location"

\* an upper-case " EVENT\n" was classified as event
C5_Witness ==
    /\ arg = <<" ", "E","V","E","N","T", "\n">>
    /\ ret = Returned("event")

\* the periods of an opening_hours value
PeriodsOf(opening_hours) == Get(opening_hours, "periods", <<>>)

WellFormedPeriod(p) ==
    /\ HasKey(p, "open") /\ HasKey(p, "close")
    /\ HasKey(p["open"], "day") /\ HasKey(p["open"], "time")
    /\ HasKey(p["close"], "day") /\ HasKey(p["close"], "time")
    /\ p["open"]["day"] \in 0..6

\* position of the last period of the list that opens on day d
LastFor(ps, d) ==
    CHOOSE j \in 1..Len(ps) :
        /\ ps[j]["open"]["day"] = d
        /\ \A k \in (j + 1)..Len(ps) : ps[k]["open"]["day"] # d

\* C6: for a well-formed list of periods the result has exactly the keys
\* Sun..Sat of the days with at least one period, and each day's value is
\* "<open_time>-<close_time>" of the last period in list order opening on
\* that day.
C6_LastPeriodWins ==
    (/\ ret.kind = "returned"
     /\ arg # None
     /\ \A j \in 1..Len(PeriodsOf(arg)) : WellFormedPeriod(PeriodsOf(arg)[j]))
    => LET ps == PeriodsOf(arg)
           open_days == { ps[j]["open"]["day"] : j \in 1..Len(ps) }
       IN  /\ DOMAIN ret.val = { days_map[d + 1] : d \in open_days }
           /\ \A d \in open_days :
                  ret.val[days_map[d + 1]] =
                      HoursText(ps[LastFor(ps, d)]["open"]["time"],
                                ps[LastFor(ps, d)]["close"]["time"])

\* Monday twice around a Sunday: the later Monday period is the one kept
C6_Witness ==
    /\ arg = [periods |-> <<PeriodPool[1], PeriodPool[3], PeriodPool[2]>>]
    /\ ret = Returned(("Mon" :> <<"1900", "-", "2200">>)
                      @@ ("Sun" :> <<"1000", "-", "1700">>))

\* some key of the period shape {open:{day,time}, close:{day,time}} is absent
MissingKey(p) ==
    \/ ~HasKey(p, "open")
    \/ ~HasKey(p, "close")
    \/ HasKey(p, "open") /\ (~HasKey(p["open"], "day") \/ ~HasKey(p["open"], "time"))
    \/ HasKey(p, "close") /\ (~HasKey(p["close"], "day") \/ ~HasKey(p["close"], "time"))

\* a key that format_opening_hours reads is absent
MissingReadKey(p) ==
    \/ ~HasKey(p, "open")
    \/ HasKey(p, "open") /\ ~HasKey(p["open"], "day")
    \/ /\ HasKey(p, "open") /\ HasKey(p["open"], "day")
       /\ p["open"]["day"] \in 0..6
       /\ \/ ~HasKey(p["open"], "time")
          \/ ~HasKey(p, "close")
          \/ HasKey(p, "close") /\ ~HasKey(p["close"], "time")

\* C7 as stated: a period with any key missing makes the result empty.
C7_AnyMissingKeyGivesEmpty ==
    (/\ ret.kind = "returned"
     /\ arg # None
     /\ \E j \in 1..Len(PeriodsOf(arg)) : MissingKey(PeriodsOf(arg)[j]))
    => ret.val = EmptyDict

\* C7: if some period lacks a key that format_opening_hours reads ('open',
\* open.day, or, when open.day is in 0..6, open.time, 'close' or
\* close.time), wherever it is in the list, the result is the empty mapping.
C7_MissingReadKeyGivesEmpty ==
    (/\ ret.kind = "returned"
     /\ arg # None
     /\ \E j \in 1..Len(PeriodsOf(arg)) : MissingReadKey(PeriodsOf(arg)[j]))
    => ret.val = EmptyDict

\* two valid periods followed by one without 'close': nothing is returned
C7_Witness ==
    /\ arg = [periods |-> <<PeriodPool[3], PeriodPool[1], PeriodPool[6]>>]
    /\ ret = Returned(EmptyDict)

\* the characters of s that are not whitespace
StripWhitespace(s) == SelectSeq(s, LAMBDA c : c \notin Whitespace)

\* C8 as stated: the result is "+65-XXXX-XXXX" exactly when the input is a
\* string that is 8 ASCII digits once whitespace is removed, and the
\* literal "None" for every other input.
C8_FormatsIffEightAsciiDigits ==
    ret.kind = "returned" =>
        IF /\ arg.kind = "str"
           /\ Len(StripWhitespace(arg.val)) = 8
           /\ \A i \in 1..8 : StripWhitespace(arg.val)[i] \in AsciiDigit
        THEN ret.val = <<"+","6","5","-">>
                       \o SubSeq(StripWhitespace(arg.val), 1, 4) \o <<"-">>
                       \o SubSeq(StripWhitespace(arg.val), 5, 8)
        ELSE ret.val = NoneText

(***************************************************************************)
(* Properties of a request                                                 *)
(***************************************************************************)
Raised == exc.kind = "Exception"

\* C1 as stated: when the events API answers with a status other than 200,
\* fetch_events_from_predicthq returns the status code and /search answers
\* 404 with a not-found message, never 200 with the code as its body.
C1_NonSuccessGives404 ==
    (pc = "done" /\ events_data.kind = "int")
    => /\ response.status_code = 404
       /\ HasKey(response.content, "message")

\* C2 as stated: when the places text search returns no result, /search
\* answers 404 with a {"message": ...} body, neither 200 nor 500.
C2_NoPlacesGives404 ==
    (pc = "done" /\ classification = "location"
         /\ response_data.kind = "JSONResponse")
    => /\ response.status_code = 404
       /\ HasKey(response.content, "message")

\* C3: once a step has raised, the request only goes through the except
\* clause; its response is status 500 with the exception's message as
\* detail and nothing else, and no response exists before the request ends.
C3_ExceptionGives500 ==
    /\ Raised => pc \in {"except", "done"}
    /\ (Raised /\ pc = "done")
           => response = JSONResponse([detail |-> exc.msg], 500)
    /\ pc # "done" => response = None

\* the description of the second event failed after the first was appended
C3_Witness ==
    /\ pc = "done"
    /\ Raised
    /\ events_data.kind = "list"
    /\ Len(events_data.val) = 1
    /\ Len(upstream) = 2
    /\ response.status_code = 500

\* C4 as stated: without an exception, an adapter result of length 0 gives
\* 404 and a non-empty list gives 200 with exactly that list as body.
C4_Envelope ==
    (pc = "done" /\ ~Raised)
    => LET result == IF classification = "event"
                     THEN events_data ELSE response_data
       IN  result.kind = "list"
           => /\ Len(result.val) = 0 => response.status_code = 404
              /\ Len(result.val) > 0 => /\ response.status_code = 200
                                        /\ response.content = result

EventKeys == {"Title", "Start Date & Time", "End Date & Time", "Location",
              "Description", "Citation"}

\* the calls of one kind, in the order issued
CallsOf(name) == SelectSeq(calls, LAMBDA c : c.call = name)

\* C9: when fetch_events_from_predicthq returns a list, it has one record
\* per upstream record in upstream order, each with exactly the six keys,
\* and the description prompt of a record without description was given
\* "No description"; when fetch_locations_from_gplaces returns a list, it
\* has min(m, L) records, the i-th from the details of the i-th result.
C9_NoFabricationNoReorder ==
    /\ (/\ classification = "event" /\ pc \in {"search.event", "done"}
        /\ events_data.kind = "list" /\ ~Raised)
       => /\ Len(events_data.val) = Len(upstream)
          /\ Len(CallsOf("llm:event_description")) = Len(upstream)
          /\ \A i \in 1..Len(upstream) :
               /\ DOMAIN events_data.val[i] = EventKeys
               /\ events_data.val[i]["Title"] = upstream[i]["title"]
               /\ CallsOf("llm:event_description")[i].args[1] = upstream[i]["title"]
               /\ ~HasKey(upstream[i], "description")
                    => CallsOf("llm:event_description")[i].args[2] = NoDescription
    /\ (/\ classification = "location" /\ pc \in {"search.location", "done"}
        /\ response_data.kind = "list" /\ ~Raised)
       => /\ Len(upstream) > 0
          /\ Len(response_data.val) = Min(Len(upstream), GOOGLE_PLACES_LIMIT)
          /\ Len(CallsOf("gmaps:place")) = Len(response_data.val)
          /\ \A i \in 1..Len(response_data.val) :
               /\ CallsOf("gmaps:place")[i].args[1] = upstream[i]
               /\ response_data.val[i]["Name"] = PlaceDetailsOf[upstream[i]]["name"]
               /\ response_data.val[i]["Citation"] = <<PlaceDetailsOf[upstream[i]]["url"]>>

\* two events, the first without description, were returned in order
C9_Witness ==
    /\ pc = "done"
    /\ ~Raised
    /\ classification = "event"
    /\ upstream = <<RawEventPool[2], RawEventPool[1]>>
    /\ events_data.kind = "list"
    /\ Len(events_data.val) = 2
    /\ events_data.val[1]["Title"] = RawEventPool[2]["title"]
    /\ response.status_code = 200

EventCalls == {"llm:category", "http:events", "http:geocode",
               "llm:event_description"}
PlaceCalls == {"gmaps:places", "gmaps:place", "llm:place_description",
               "llm:top_offerings"}
EnrichmentCalls == {"http:geocode", "llm:event_description", "gmaps:place",
                    "llm:place_description", "llm:top_offerings"}

\* C10: the intent call is the first call and the only one of its kind; an
\* event request then calls the category LLM, then the events API once,
\* and never the places API; a location request then calls the places
\* search once and never the category LLM, the events API or the geocoder;
\* enrichment calls come only after the search returned records, in the
\* order of the loop body; the offerings call is made once per place
\* exactly when INCLUDE_TOP_OFFERINGS_PRICES is set.
C10_CallOrder ==
    /\ calls # <<>> => calls[1].call = "llm:intent"
    /\ \A i \in 2..Len(calls) : calls[i].call # "llm:intent"
    /\ classification = "unset" => Len(calls) <= 1
    /\ classification = "event" =>
         /\ \A i \in 1..Len(calls) : calls[i].call \notin PlaceCalls
         /\ Len(calls) >= 2 => calls[2].call = "llm:category"
         /\ Len(calls) >= 3 => calls[3].call = "http:events"
         /\ \A i \in 4..Len(calls) :
              /\ calls[i].call \in {"http:geocode", "llm:event_description"}
              /\ calls[i].call = "llm:event_description"
                   => calls[i - 1].call = "http:geocode"
    /\ classification = "location" =>
         /\ \A i \in 1..Len(calls) : calls[i].call \notin EventCalls
         /\ Len(calls) >= 2 => calls[2].call = "gmaps:places"
         /\ \A i \in 3..Len(calls) :
              /\ calls[i].call \in PlaceCalls \ {"gmaps:places"}
              /\ calls[i].call = "llm:place_description"
                   => calls[i - 1].call = "gmaps:place"
              /\ calls[i].call = "llm:top_offerings"
                   => calls[i - 1].call = "llm:place_description"
    /\ (\E i \in 1..Len(calls) : calls[i].call \in EnrichmentCalls)
           => upstream # <<>>
    /\ ~INCLUDE_TOP_OFFERINGS_PRICES => CallsOf("llm:top_offerings") = <<>>
    /\ (response_data.kind = "list" /\ ~Raised
            /\ pc \in {"gmaps.place", "search.location", "done"})
           => Len(CallsOf("llm:top_offerings")) =
                  IF INCLUDE_TOP_OFFERINGS_PRICES
                  THEN Len(response_data.val) ELSE 0

\* two places were enriched, each with its offerings call, option enabled
C10_Witness ==
    /\ pc = "done"
    /\ ~Raised
    /\ INCLUDE_TOP_OFFERINGS_PRICES
    /\ [i \in 1..Len(calls) |-> calls[i].call] =
          <<"llm:intent", "gmaps:places",
            "gmaps:place", "llm:place_description", "llm:top_offerings",
            "gmaps:place", "llm:place_description", "llm:top_offerings">>

====
